---- MODULE Spec2Model ----
(***************************************************************************)
(* State-machine model of espnet2/gan_svs/vits/generator.py: the class     *)
(* VITSGenerator with its constructor, forward (training), inference and   *)
(* _generate_path.  Tensors are modelled by their shapes; the auxiliary    *)
(* score streams, the length vectors, the masks and the alignment path     *)
(* are modelled by their contents.                                         *)
(***************************************************************************)
EXTENDS Integers, Sequences, FiniteSets, TLC

(* ------------------------------ bounds --------------------------------- *)
\* largest width (time axis) of an auxiliary score stream
MaxW == 3
\* largest width (time axis) of the acoustic features
MaxT == 2
\* largest configured segment_size
MaxSeg == 2
\* torch.rand is drawn from { k / RandDen : k = 0 .. RandDen - 1 }
RandDen == 2
\* largest encoder width handed to _generate_path
MaxTx == 2
\* largest feature width handed to _generate_path
MaxTy == 3
\* largest single duration handed to _generate_path
MaxDur == 2

\* batch indices (B = 2)
Examples == {1, 2}

(* ---------------------------- Python values ---------------------------- *)
\* Optional[...]: None is the empty set, a present value v is {v}
None == {}
Some(v) == {v}
IsNone(o) == o = {}
The(o) == CHOOSE v \in o : TRUE

Min(a, b) == IF a <= b THEN a ELSE b
Max(a, b) == IF a >= b THEN a ELSE b

\* default of the constructor's global_channels parameter
DefaultGlobalChannels == -1

(* ------------------------------ state ---------------------------------- *)
VARIABLES
    gen,      \* the generator object: None, or Some(record of self.*)
    op,       \* the call in progress or just finished: "idle", "init", ...
    args,     \* the arguments of that call
    outcome,  \* "ok" or the name of the error the call raised
    ret,      \* the value the call returned (<< >> if it raised)
    enc,      \* what the text encoder was handed (None if never reached)
    dec,      \* the latent the decoder was handed (None if never reached)
    caller,   \* the caller-owned buffers after the call
    trace     \* the components invoked by the call, in order

vars == <<gen, op, args, outcome, ret, enc, dec, caller, trace>>

(* ---------------------------- constructor ------------------------------ *)
\* int(np.prod(decoder_upsample_scales))
RECURSIVE NpProd(_)
NpProd(s) == IF s = << >> THEN 1 ELSE s[1] * NpProd(Tail(s))

\* `spks is not None and spks > 1`, `langs is not None and langs > 1`
IndexConfigured(n) == ~IsNone(n) /\ The(n) > 1

\* `spk_embed_dim is not None and spk_embed_dim > 0`
EmbedConfigured(n) == ~IsNone(n) /\ The(n) > 0

\* `assert global_channels > 0`
AssertGlobalMut(gc) == gc >= 0
AssertGlobal(gc) == gc > 0

\* the three guarded blocks of __init__, in order
InitOutcome(a) ==
    IF IndexConfigured(a.spks) /\ ~AssertGlobal(a.global_channels)
        THEN "AssertionError"
    ELSE IF EmbedConfigured(a.spk_embed_dim) /\ ~AssertGlobal(a.global_channels)
        THEN "AssertionError"
    ELSE IF IndexConfigured(a.langs) /\ ~AssertGlobal(a.global_channels)
        THEN "AssertionError"
    ELSE "ok"

\* the attributes __init__ leaves on self
InitSelf(a) ==
    [ segment_size |-> a.segment_size,
      hidden_channels |-> a.hidden_channels,
      decoder_upsample_scales |-> a.decoder_upsample_scales,
      upsample_factor |-> NpProd(a.decoder_upsample_scales),
      spks |-> IF IndexConfigured(a.spks) THEN a.spks ELSE None,
      spk_embed_dim |-> IF EmbedConfigured(a.spk_embed_dim)
                            THEN a.spk_embed_dim ELSE None,
      langs |-> IF IndexConfigured(a.langs) THEN a.langs ELSE None ]

InitArgs ==
    [ spks : {None, Some(1), Some(2)},
      spk_embed_dim : {None, Some(0), Some(2)},
      langs : {None, Some(1), Some(2)},
      global_channels : {DefaultGlobalChannels, 0, 2},
      segment_size : 1..MaxSeg,
      hidden_channels : {2, 4},
      decoder_upsample_scales : {<<2>>, <<2, 3>>} ]

Idle == op = "idle"

Init ==
    /\ gen = None
    /\ op = "idle"
    /\ args = None
    /\ outcome = "none"
    /\ ret = << >>
    /\ enc = None
    /\ dec = None
    /\ caller = None
    /\ trace = << >>

Construct ==
    /\ Idle
    /\ IsNone(gen)
    /\ \E a \in InitArgs :
        /\ op' = "init"
        /\ args' = Some(a)
        /\ outcome' = InitOutcome(a)
        /\ gen' = IF InitOutcome(a) = "ok" THEN Some(InitSelf(a)) ELSE None
    /\ UNCHANGED <<ret, enc, dec, caller, trace>>

\* the call has returned (or raised) and its transient values are dropped
Return ==
    /\ ~Idle
    /\ op' = "idle"
    /\ args' = None
    /\ outcome' = "none"
    /\ ret' = << >>
    /\ enc' = None
    /\ dec' = None
    /\ caller' = None
    /\ trace' = << >>
    /\ UNCHANGED gen

(* ------------------------ tensors and helpers -------------------------- *)
\* a (B, W) integer stream: one row per example
Width(x) == Len(x[1])

\* a (B, W) stream of non-zero entries, distinct in every position
Stream(base, w) == [i \in Examples |-> [j \in 1..w |-> base + 10 * i + j]]

\* F.pad(input=x, pad=(0, n, 0, 0), mode="constant", value=0): n >= 0 appends
\* n zeros to every row, n < 0 removes -n entries from the right of every row
FPad(x, n) ==
    [i \in DOMAIN x |->
        IF n >= 0 THEN x[i] \o [j \in 1..n |-> 0]
                  ELSE SubSeq(x[i], 1, Len(x[i]) + n)]

\* x[:, :n] for n >= 0
SliceTo(x, n) == [i \in DOMAIN x |-> SubSeq(x[i], 1, Min(n, Len(x[i])))]

\* the loop over label_xml_lengths: an entry equal to label_xml.shape[1] is
\* overwritten, in place, by feats.shape[2]
LengthFixMut(lengths, w, t) ==
    [i \in DOMAIN lengths |-> IF lengths[i] = Min(w, t) THEN t ELSE lengths[i]]
LengthFix(lengths, w, t) ==
    [i \in DOMAIN lengths |-> IF lengths[i] = w THEN t ELSE lengths[i]]

\* the if/else on label_xml.shape[1] < feats.shape[2]
Reconcile(label_xml, midi_xml, beat_xml, t) ==
    IF Width(label_xml) < t
        THEN [ label_xml |-> FPad(label_xml, t - Width(label_xml)),
               midi_xml |-> FPad(midi_xml, t - Width(midi_xml)),
               beat_xml |-> FPad(beat_xml, t - Width(beat_xml)) ]
        ELSE [ label_xml |-> SliceTo(label_xml, t),
               midi_xml |-> SliceTo(midi_xml, t),
               beat_xml |-> SliceTo(beat_xml, t) ]

\* a (B, 1, W) validity mask: position j of example i is valid iff j <= length
SequenceMask(lengths, w) == [i \in Examples |-> [j \in 1..w |-> j <= lengths[i]]]

\* a (B, C, T) tensor, by shape
Tensor(c, t) == [c |-> c, t |-> t]

\* the expression a value was computed by: the function applied and its
\* arguments, in the order the code passes them
Apply(f, xs) == [f |-> f, xs |-> xs]

\* a (B, C, T) tensor, by shape and by the expression that computed it
Valued(c, t, v) == [c |-> c, t |-> t, v |-> v]

\* TextEncoder.forward: the three streams must agree in width; the outputs
\* are aligned to the label width and have attention_dim channels
TextEncoderOk(label_xml, midi_xml, beat_xml) ==
    /\ Width(midi_xml) = Width(label_xml)
    /\ Width(beat_xml) = Width(label_xml)

TextEncoder(self, label_xml, lengths, ds, midi_xml, beat_xml) ==
    LET in == <<label_xml, lengths, ds, midi_xml, beat_xml>>
        out(name) == Valued(self.hidden_channels, Width(label_xml),
                            Apply(name, in))
    IN [ x |-> out("text_encoder.x"),
         m_p |-> out("text_encoder.m_p"),
         logs_p |-> out("text_encoder.logs_p"),
         x_mask |-> SequenceMask(lengths, Width(label_xml)) ]

\* the global conditioning g: the set of contributions summed into it
\* (None when no feature is configured); cond is the set of conditioning
\* tensors the caller supplied
GlobalCondOk(self, cond) ==
    /\ ~IsNone(self.spks) => "sids" \in cond
    /\ ~IsNone(self.spk_embed_dim) => "spembs" \in cond
    /\ ~IsNone(self.langs) => "lids" \in cond

GlobalCondMut(self, cond) == IF cond = {} THEN None ELSE Some(cond)
GlobalCond(self, cond) ==
    LET parts == (IF ~IsNone(self.spks) THEN {"sids"} ELSE {})
                 \cup (IF ~IsNone(self.spk_embed_dim) THEN {"spembs"} ELSE {})
                 \cup (IF ~IsNone(self.langs) THEN {"lids"} ELSE {})
    IN IF parts = {} THEN None ELSE Some(parts)

\* pe[:, :, 0::2] = sin(position * div_term); pe[:, :, 1::2] = cos(...):
\* div_term has ceil(d_model / 2) entries, the odd columns floor(d_model / 2)
PositionalEncodingOk(d_model) == (d_model + 1) \div 2 = d_model \div 2

\* PosteriorEncoder.forward: outputs at the feature time resolution
PosteriorEncoder(self, t, lengths, g) ==
    LET out(name) == Valued(self.hidden_channels, t,
                            Apply(name, <<t, lengths, g>>))
    IN [ z |-> out("posterior_encoder.z"),
         m_q |-> out("posterior_encoder.m_q"),
         logs_q |-> out("posterior_encoder.logs_q"),
         y_mask |-> SequenceMask(lengths, t) ]

\* ResidualAffineCouplingBlock.forward: shape preserving, in either direction
Flow(z, mask, g, inverse) ==
    Valued(z.c, z.t,
           Apply(IF inverse THEN "flow_inverse" ELSE "flow", <<z.v, mask, g>>))

\* get_segments: segment_size frames of every example, from its start index
GetSegments(x, idx, segment_size) ==
    Valued(x.c, segment_size, Apply("get_segments", <<x.v, idx, segment_size>>))

\* a tensor * mask
Masked(x, mask) == Valued(x.c, x.t, Apply("mul", <<x.v, mask>>))

\* rounding toward zero, as .to(dtype=torch.long) does
TruncDiv(a, b) == IF a >= 0 THEN a \div b ELSE -((-a) \div b)

\* get_random_segments: start = long(rand * (length - segment_size)),
\* with rand = k / RandDen
StartIdx(k, length, segment_size) == TruncDiv(k * (length - segment_size), RandDen)

\* the number of frames of x[i, :, lo:hi] on a time axis of width t
PyIndex(i, t) == IF i < 0 THEN Max(i + t, 0) ELSE Min(i, t)
PySliceLen(lo, hi, t) == Max(PyIndex(hi, t) - PyIndex(lo, t), 0)

\* segments[i] = x[i, :, start : start + segment_size] fits when the slice
\* has segment_size frames (or broadcasts from one frame)
SegmentOk(start, segment_size, t) ==
    PySliceLen(start, start + segment_size, t) \in {segment_size, 1}

\* HiFiGANGenerator.forward: every upsampling stage multiplies the time axis
RECURSIVE Upsample(_, _)
Upsample(t, scales) ==
    IF scales = << >> THEN t ELSE Upsample(t * scales[1], Tail(scales))

Decoder(self, x, g) ==
    Valued(1, Upsample(x.t, self.decoder_upsample_scales),
           Apply("decoder", <<x.v, g>>))

\* what the decoder is handed: the latent and the global conditioning
DecoderCall(x, g) == [c |-> x.c, t |-> x.t, v |-> x.v, g |-> g]

(* ------------------------------ forward -------------------------------- *)
\* the latent handed to the decoder by forward
ForwardDecoderInputMut(seg, z) == z
ForwardDecoderInput(seg, z) == seg

\* the tuple forward returns
ForwardReturnMut(wav, idx, x_mask, y_mask, z, z_p, m_p, logs_p, m_q, logs_q) ==
    <<wav, idx, x_mask, y_mask, <<z, z_p, m_p, m_q, logs_q>>>>
ForwardReturn(wav, idx, x_mask, y_mask, z, z_p, m_p, logs_p, m_q, logs_q) ==
    <<wav, idx, x_mask, y_mask, <<z, z_p, m_p, logs_p, m_q, logs_q>>>>

\* the latent get_random_segments crops
ForwardSegmentInputMut(z, z_p) == z_p
ForwardSegmentInput(z, z_p) == z

\* the components forward has invoked when it stops after the n-th
ForwardOrder ==
    <<"text_encoder", "posterior_encoder", "flow", "get_random_segments",
      "decoder">>

ForwardRun(self, a) ==
    LET t == a.feats_T
        lengths == LengthFix(a.label_xml_lengths, Width(a.label_xml), t)
        r == Reconcile(a.label_xml, a.midi_xml, a.beat_xml, t)
        bufs == [ label_xml |-> a.label_xml,
                  midi_xml |-> a.midi_xml,
                  beat_xml |-> a.beat_xml,
                  label_xml_lengths |-> lengths ]
        encin == [ label_xml |-> r.label_xml,
                   label_xml_lengths |-> lengths,
                   midi_xml |-> r.midi_xml,
                   beat_xml |-> r.beat_xml ]
        te == TextEncoder(self, r.label_xml, lengths, Some(a.ds), r.midi_xml,
                          r.beat_xml)
        g == GlobalCond(self, a.cond)
        pq == PosteriorEncoder(self, t, a.feats_lengths, g)
        z_p == Flow(pq.z, pq.y_mask, g, FALSE)
        idx == [i \in Examples |->
                  StartIdx(a.rand[i], a.feats_lengths[i], self.segment_size)]
        seg == GetSegments(ForwardSegmentInput(pq.z, z_p), idx,
                           self.segment_size)
        din == ForwardDecoderInput(seg, pq.z)
        wav == Decoder(self, din, g)
        fail(e, n) == [ outcome |-> e, ret |-> << >>, enc |-> Some(encin),
                        dec |-> None, caller |-> Some(bufs),
                        trace |-> SubSeq(ForwardOrder, 1, n) ]
    IN  IF ~TextEncoderOk(r.label_xml, r.midi_xml, r.beat_xml)
            THEN fail("RuntimeError", 1)
        ELSE IF ~GlobalCondOk(self, a.cond)
            THEN fail("AttributeError", 1)
        ELSE IF ~PositionalEncodingOk(te.x.c)
            THEN fail("RuntimeError", 1)
        ELSE IF \E i \in Examples : ~SegmentOk(idx[i], self.segment_size, t)
            THEN fail("RuntimeError", 4)
        ELSE [ outcome |-> "ok",
               ret |-> ForwardReturn(wav, idx, te.x_mask, pq.y_mask, pq.z, z_p,
                                     te.m_p, te.logs_p, pq.m_q, pq.logs_q),
               enc |-> Some(encin),
               dec |-> Some(DecoderCall(din, g)),
               caller |-> Some(bufs),
               trace |-> ForwardOrder ]

AllOf(v) == [i \in Examples |-> v]
AllCond == {"sids", "spembs", "lids"}

ForwardArgs(label_w, midi_w, beat_w, ls, t, fl, k, c) ==
    [ label_xml |-> Stream(100, label_w), midi_xml |-> Stream(200, midi_w),
      beat_xml |-> Stream(300, beat_w), label_xml_lengths |-> ls,
      feats_T |-> t, feats_lengths |-> fl, rand |-> k, cond |-> c,
      ds |-> [i \in Examples |-> [j \in 1..label_w |-> 1]] ]

ForwardCall(a) ==
    LET r == ForwardRun(The(gen), a) IN
    /\ op' = "forward"
    /\ args' = Some(a)
    /\ outcome' = r.outcome
    /\ ret' = r.ret
    /\ enc' = r.enc
    /\ dec' = r.dec
    /\ caller' = r.caller
    /\ trace' = r.trace

\* the calls drawn vary (1) the score streams and their declared lengths,
\* (2) the feature lengths and the random draws, (3) the conditioning
\* tensors supplied
Forward ==
    /\ Idle
    /\ ~IsNone(gen)
    /\ \/ \E wl \in 1..MaxW, wm \in 1..MaxW, wb \in 1..MaxW, t \in 1..MaxT,
            ls \in [Examples -> 1..MaxW] :
              ForwardCall(ForwardArgs(wl, wm, wb, ls, t, AllOf(t), AllOf(0),
                                      AllCond))
       \/ \E t \in 1..MaxT :
            \E fl \in [Examples -> 1..t], k \in [Examples -> 0..(RandDen - 1)] :
              ForwardCall(ForwardArgs(t, t, t, AllOf(t), t, fl, k, AllCond))
       \/ \E c \in SUBSET AllCond :
              ForwardCall(ForwardArgs(MaxT, MaxT, MaxT, AllOf(MaxT), MaxT,
                                      AllOf(MaxT), AllOf(0), c))
    /\ UNCHANGED gen

(* ----------------------------- inference ------------------------------ *)
\* x[:, :, :max_len]: None keeps the whole time axis
SliceMaxLen(t, max_len) ==
    IF IsNone(max_len) THEN t ELSE PySliceLen(0, The(max_len), t)

\* wav.squeeze(1): (B, 1, T_wav) -> (B, T_wav)
Squeeze1(x) == IF x.c = 1 THEN [t |-> x.t, v |-> x.v] ELSE x

\* z_p = m_p + torch.randn_like(m_p) * torch.exp(logs_p) * noise_scale; the
\* durations, their noise scale and alpha are parameters of inference that
\* this line does not read
PriorSampleMut(m_p, logs_p, noise_scale, dur, noise_scale_dur, alpha) ==
    Valued(m_p.c, m_p.t,
           Apply("sample_prior", <<m_p.v, logs_p.v, noise_scale, alpha>>))
PriorSample(m_p, logs_p, noise_scale, dur, noise_scale_dur, alpha) ==
    Valued(m_p.c, m_p.t, Apply("sample_prior", <<m_p.v, logs_p.v, noise_scale>>))

\* (z * x_mask)[:, :, :max_len]
FreeDecoderInputMut(z, x_mask, max_len) == Masked(z, x_mask)
FreeDecoderInput(z, x_mask, max_len) ==
    LET zm == Masked(z, x_mask)
        n == SliceMaxLen(zm.t, max_len)
    IN Valued(zm.c, n, Apply("slice", <<zm.v, 0, n>>))

\* z * y_mask, handed to the decoder whole
TeacherDecoderInputMut(z, z_p, y_mask, max_len) ==
    FreeDecoderInput(z_p, y_mask, max_len)
TeacherDecoderInput(z, z_p, y_mask, max_len) == Masked(z, y_mask)

\* the tuple inference returns
InferenceReturnMut(wav, dur) == <<Squeeze1(wav), None, dur>>
InferenceReturn(wav, dur) == <<Squeeze1(wav), None, None>>

InferenceRun(self, a) ==
    LET te == TextEncoder(self, a.label_xml, a.label_xml_lengths, None,
                          a.midi_xml, a.beat_xml)
        g == GlobalCond(self, a.cond)
        encin == [ label_xml |-> a.label_xml,
                   label_xml_lengths |-> a.label_xml_lengths,
                   midi_xml |-> a.midi_xml,
                   beat_xml |-> a.beat_xml ]
        bufs == [ label_xml |-> a.label_xml,
                  midi_xml |-> a.midi_xml,
                  beat_xml |-> a.beat_xml,
                  label_xml_lengths |-> a.label_xml_lengths ]
        fail(e, tr) == [ outcome |-> e, ret |-> << >>, enc |-> Some(encin),
                         dec |-> None, caller |-> Some(bufs), trace |-> tr ]
        done(din, tr) == [ outcome |-> "ok",
                           ret |-> InferenceReturn(Decoder(self, din, g), a.dur),
                           enc |-> Some(encin),
                           dec |-> Some(DecoderCall(din, g)),
                           caller |-> Some(bufs),
                           trace |-> tr ]
    IN  IF ~TextEncoderOk(a.label_xml, a.midi_xml, a.beat_xml)
            THEN fail("RuntimeError", <<"text_encoder">>)
        ELSE IF ~GlobalCondOk(self, a.cond)
            THEN fail("AttributeError", <<"text_encoder">>)
        ELSE IF a.use_teacher_forcing
            THEN IF IsNone(a.feats)
                    THEN fail("AttributeError",
                              <<"text_encoder", "posterior_encoder">>)
                    ELSE LET f == The(a.feats)
                             pq == PosteriorEncoder(self, f.T, f.lengths, g)
                             z_p == Flow(pq.z, pq.y_mask, g, FALSE)
                         IN done(TeacherDecoderInput(pq.z, z_p, pq.y_mask,
                                                     a.max_len),
                                 <<"text_encoder", "posterior_encoder",
                                   "flow", "decoder">>)
            ELSE LET z_p == PriorSample(te.m_p, te.logs_p, a.noise_scale,
                                        a.dur, a.noise_scale_dur, a.alpha)
                     z == Flow(z_p, te.x_mask, g, TRUE)
                 IN done(FreeDecoderInput(z, te.x_mask, a.max_len),
                         <<"text_encoder", "flow_inverse", "decoder">>)

\* an externally supplied duration tensor (B, T_text), every entry d
DurOf(w, d) == AllOf([j \in 1..w |-> d])

InferenceArgsBase(w) ==
    [ label_xml |-> Stream(100, w), midi_xml |-> Stream(200, w),
      beat_xml |-> Stream(300, w), label_xml_lengths |-> AllOf(w),
      feats |-> None, cond |-> AllCond, dur |-> None,
      noise_scale |-> 667, noise_scale_dur |-> 800, alpha |-> 1000,
      max_len |-> None, use_teacher_forcing |-> FALSE ]

InferenceCall(a) ==
    LET r == InferenceRun(The(gen), a) IN
    /\ op' = "inference"
    /\ args' = Some(a)
    /\ outcome' = r.outcome
    /\ ret' = r.ret
    /\ enc' = r.enc
    /\ dec' = r.dec
    /\ caller' = r.caller
    /\ trace' = r.trace

\* the calls drawn are (1) free-running calls that vary the encoder width,
\* the declared lengths, the length cap and the supplied durations,
\* (2) teacher-forcing calls that vary the features, the length cap and the
\* supplied durations, (3) calls that vary the numeric controls and the
\* conditioning tensors supplied, (4) calls whose score streams disagree in
\* width
Inference ==
    /\ Idle
    /\ ~IsNone(gen)
    /\ \/ \E w \in 1..MaxW :
            \E ls \in [Examples -> 1..w],
               ml \in {None} \cup { Some(n) : n \in 0..(MaxW + 1) },
               d \in {None, Some(DurOf(w, 0)), Some(DurOf(w, 2))} :
              InferenceCall([ InferenceArgsBase(w) EXCEPT
                  !.label_xml_lengths = ls, !.max_len = ml, !.dur = d ])
       \/ \E w \in 1..MaxW, ml \in {None, Some(0), Some(1)} :
            \E d \in {None, Some(DurOf(w, 2))} :
              \/ InferenceCall([ InferenceArgsBase(w) EXCEPT
                    !.use_teacher_forcing = TRUE, !.max_len = ml, !.dur = d ])
              \/ \E t \in 1..MaxT : \E fl \in [Examples -> 1..t] :
                   InferenceCall([ InferenceArgsBase(w) EXCEPT
                      !.use_teacher_forcing = TRUE,
                      !.feats = Some([T |-> t, lengths |-> fl]),
                      !.max_len = ml, !.dur = d ])
       \/ \E tf \in BOOLEAN, ns \in {0, 667}, nd \in {0, 800},
             al \in {1000, 2000}, c \in SUBSET AllCond :
              InferenceCall([ InferenceArgsBase(MaxW) EXCEPT
                  !.use_teacher_forcing = tf,
                  !.feats = Some([T |-> MaxT, lengths |-> AllOf(MaxT)]),
                  !.noise_scale = ns, !.noise_scale_dur = nd, !.alpha = al,
                  !.cond = c ])
       \/ \E wl \in 1..MaxW, wm \in 1..MaxW, wb \in 1..MaxW :
              InferenceCall([ InferenceArgsBase(wl) EXCEPT
                  !.midi_xml = Stream(200, wm), !.beat_xml = Stream(300, wb) ])
    /\ UNCHANGED gen

Next == Construct \/ Forward \/ Inference \/ Return

Spec == Init /\ [][Next]_vars

(* --------------------------- _generate_path ---------------------------- *)
B == Cardinality(Examples)

RECURSIVE SumTo(_, _)
SumTo(d, n) == IF n = 0 THEN 0 ELSE d[n] + SumTo(d, n - 1)

\* torch.cumsum(dur, -1)
CumSumMut(dur) == [b \in DOMAIN dur |-> [x \in DOMAIN dur[b] |-> SumTo(dur[b], x - 1)]]
CumSum(dur) == [b \in DOMAIN dur |-> [x \in DOMAIN dur[b] |-> SumTo(dur[b], x)]]

\* cum_dur.view(b * t_x): row-major flattening
ViewFlat(c, t_x) ==
    [r \in 1..(B * t_x) |-> c[((r - 1) \div t_x) + 1][((r - 1) % t_x) + 1]]

\* torch.arange(t_y).unsqueeze(0) < cum_dur_flat.unsqueeze(1), as 0/1
BelowMut(flat, t_y) ==
    [r \in DOMAIN flat |-> [y \in 1..t_y |-> IF y - 1 <= flat[r] THEN 1 ELSE 0]]
Below(flat, t_y) ==
    [r \in DOMAIN flat |-> [y \in 1..t_y |-> IF y - 1 < flat[r] THEN 1 ELSE 0]]

\* path.view(b, t_x, t_y)
ViewBatch(p, t_x) ==
    [b \in 1..B |-> [x \in 1..t_x |-> p[(b - 1) * t_x + x]]]

\* F.pad(path, [0, 0, 1, 0, 0, 0])[:, :-1]: every example's rows moved down
\* by one along the encoder axis, a row of zeros first
ShiftRows(p, t_y) ==
    [b \in DOMAIN p |->
        [x \in DOMAIN p[b] |->
            IF x = 1 THEN [y \in 1..t_y |-> 0] ELSE p[b][x - 1]]]

\* mask (B, 1, T_feats, T_text) built from the two validity masks
AttnMask(lx, ly, t_x, t_y) ==
    [b \in 1..B |-> [y \in 1..t_y |-> [x \in 1..t_x |->
        IF x <= lx[b] /\ y <= ly[b] THEN 1 ELSE 0]]]

\* path.unsqueeze(1).transpose(2, 3) * mask, indexed [b][y][x]
GeneratePathOf(dur, mask, t_x, t_y) ==
    LET cum_dur == CumSum(dur)
        cum_dur_flat == ViewFlat(cum_dur, t_x)
        path == ViewBatch(Below(cum_dur_flat, t_y), t_x)
        shifted == ShiftRows(path, t_y)
    IN [b \in 1..B |-> [y \in 1..t_y |-> [x \in 1..t_x |->
          (path[b][x][y] - shifted[b][x][y]) * mask[b][y][x]]]]

Durations(t_x) == [1..t_x -> 0..MaxDur]

PathArgs(d1, d2, t_x, t_y, lx, ly) ==
    [ dur |-> [b \in 1..B |-> IF b = 1 THEN d1 ELSE d2],
      t_x |-> t_x, t_y |-> t_y, lx |-> lx, ly |-> ly ]

\* a generator with the default conditioning, about to be asked for a path;
\* the inputs drawn vary (1) both examples' durations under an all-valid
\* mask, (2) the two validity masks
InitPath ==
    /\ gen = Some(InitSelf([ spks |-> None, spk_embed_dim |-> None,
                             langs |-> None,
                             global_channels |-> DefaultGlobalChannels,
                             segment_size |-> 1, hidden_channels |-> 2,
                             decoder_upsample_scales |-> <<2>> ]))
    /\ op = "path_input"
    /\ \E t_x \in 1..MaxTx, t_y \in 1..MaxTy :
         \/ \E d1 \in Durations(t_x), d2 \in Durations(t_x) :
              args = Some(PathArgs(d1, d2, t_x, t_y, AllOf(t_x), AllOf(t_y)))
         \/ \E d \in Durations(t_x), lx \in [Examples -> 1..t_x],
               ly \in [Examples -> 1..t_y] :
              args = Some(PathArgs(d, d, t_x, t_y, lx, ly))
    /\ outcome = "none"
    /\ ret = << >>
    /\ enc = None
    /\ dec = None
    /\ caller = None
    /\ trace = << >>

GeneratePath ==
    /\ op = "path_input"
    /\ LET a == The(args) IN
        /\ op' = "_generate_path"
        /\ outcome' = "ok"
        /\ ret' = <<GeneratePathOf(a.dur, AttnMask(a.lx, a.ly, a.t_x, a.t_y),
                                   a.t_x, a.t_y)>>
    /\ UNCHANGED <<gen, args, enc, dec, caller, trace>>

NextPath == GeneratePath

SpecPath == InitPath /\ [][NextPath]_vars

(* ============================== claims ================================= *)
FeatureRequested(a) ==
    \/ ~IsNone(a.spks) /\ The(a.spks) > 1
    \/ ~IsNone(a.spk_embed_dim) /\ The(a.spk_embed_dim) > 0
    \/ ~IsNone(a.langs) /\ The(a.langs) > 1

\* C1: constructing with spks > 1, spk_embed_dim > 0 or langs > 1 while
\* global_channels is not positive (the default -1 included) raises at
\* construction, and no generator object is produced.
C1_ConstructionNeedsGlobalChannels ==
    (op = "init" /\ FeatureRequested(The(args))
                 /\ The(args).global_channels <= 0)
        => (outcome = "AssertionError" /\ IsNone(gen))

C1_Witness ==
    /\ op = "init"
    /\ IsNone(The(args).spks)
    /\ IsNone(The(args).spk_embed_dim)
    /\ The(args).langs = Some(2)
    /\ The(args).global_channels = DefaultGlobalChannels
    /\ outcome = "AssertionError"
    /\ IsNone(gen)

\* a stream handed to the text encoder is the original one padded with zeros
\* or truncated, on the right, to width t
ReconciledTo(orig, got, t) ==
    \A i \in Examples :
        /\ Len(got[i]) = t
        /\ \A j \in 1..Min(Len(orig[i]), t) : got[i][j] = orig[i][j]
        /\ \A j \in (Len(orig[i]) + 1)..t : got[i][j] = 0

\* C2: in forward, each of label_xml, midi_xml and beat_xml reaches the text
\* encoder with width exactly feats.shape[2], padded with zeros or truncated
\* on the right, whatever the three widths are.
C2_EveryStreamReconciled ==
    (op = "forward" /\ ~IsNone(enc)) =>
        LET a == The(args)
            e == The(enc)
        IN /\ ReconciledTo(a.label_xml, e.label_xml, a.feats_T)
           /\ ReconciledTo(a.midi_xml, e.midi_xml, a.feats_T)
           /\ ReconciledTo(a.beat_xml, e.beat_xml, a.feats_T)

\* C3: in forward, the declared length of example i handed to the text
\* encoder is feats.shape[2] if the declared length equalled the original
\* width of label_xml, and the declared length otherwise.
C3_LengthCorrectedAgainstOriginalWidth ==
    (op = "forward" /\ ~IsNone(enc)) =>
        LET a == The(args)
            e == The(enc)
        IN \A i \in Examples :
              e.label_xml_lengths[i] =
                  IF a.label_xml_lengths[i] = Width(a.label_xml)
                      THEN a.feats_T
                      ELSE a.label_xml_lengths[i]

C3_Witness ==
    /\ op = "forward"
    /\ ~IsNone(enc)
    /\ Width(The(args).label_xml) = 3
    /\ The(args).feats_T = 2
    /\ The(args).label_xml_lengths[1] = 3
    /\ The(args).label_xml_lengths[2] = 2
    /\ The(enc).label_xml_lengths[1] = 2
    /\ The(enc).label_xml_lengths[2] = 2

\* C4: in forward, every segment start index s_i satisfies 0 <= s_i and
\* s_i + segment_size <= feats_lengths[i].
C4_SegmentInsideDeclaredLength ==
    (op = "forward" /\ outcome = "ok") =>
        \A i \in Examples :
            /\ 0 <= ret[2][i]
            /\ ret[2][i] + The(gen).segment_size <= The(args).feats_lengths[i]

\* C5: the waveform forward returns has time length exactly
\* segment_size * upsample_factor, whatever the examples' feature lengths.
C5_WaveformLength ==
    (op = "forward" /\ outcome = "ok") =>
        ret[1].t = The(gen).segment_size * The(gen).upsample_factor

C5_Witness ==
    /\ op = "forward"
    /\ outcome = "ok"
    /\ The(gen).segment_size = 1
    /\ The(gen).decoder_upsample_scales = <<2, 3>>
    /\ The(args).feats_T = 2
    /\ The(args).feats_lengths[1] = 2
    /\ The(args).feats_lengths[2] = 1
    /\ ret[1].t = 6

LatentChannelsMatch ==
    \A k \in DOMAIN ret[5] : ret[5][k].c = The(gen).hidden_channels

Owned(b, x) == { y \in 1..The(args).t_y : ret[1][b][y][x] = 1 }

AllValidMask ==
    \A b \in Examples : The(args).lx[b] = The(args).t_x
                        /\ The(args).ly[b] = The(args).t_y

\* C8: with durations summing to the feature length and an all-valid mask,
\* encoder position i has the value 1 at exactly d[i] feature positions and
\* 0 elsewhere; a position of duration 0 owns none.
C8_PathRowsMatchDurations ==
    (op = "_generate_path" /\ AllValidMask
       /\ \A b \in Examples :
            SumTo(The(args).dur[b], The(args).t_x) = The(args).t_y) =>
        \A b \in Examples : \A x \in 1..The(args).t_x :
            /\ Cardinality(Owned(b, x)) = The(args).dur[b][x]
            /\ \A y \in 1..The(args).t_y : ret[1][b][y][x] \in {0, 1}

C8_Witness ==
    /\ op = "_generate_path"
    /\ AllValidMask
    /\ The(args).t_x = 2
    /\ The(args).t_y = 2
    /\ The(args).dur[1] = <<0, 2>>
    /\ The(args).dur[2] = <<1, 1>>
    /\ Owned(1, 1) = {}
    /\ Owned(1, 2) = {1, 2}

\* the encoder positions feature position y of example b is assigned to
Owners(b, y) == { x \in 1..The(args).t_x : ret[1][b][y][x] = 1 }

\* the feature positions of example b that are valid and below its total
Covered(b) ==
    { y \in 1..The(args).t_y :
        y <= The(args).ly[b]
        /\ y - 1 < SumTo(The(args).dur[b], The(args).t_x) }

\* the encoder position whose cumulative-duration interval holds y
OwnerOf(b, y) ==
    CHOOSE x \in 1..The(args).t_x :
        /\ y - 1 < SumTo(The(args).dur[b], x)
        /\ SumTo(The(args).dur[b], x - 1) <= y - 1

PathShape(b) ==
    /\ \A y \in 1..The(args).t_y : \A x \in 1..The(args).t_x :
          /\ ret[1][b][y][x] \in {0, 1}
          /\ (x > The(args).lx[b] \/ y > The(args).ly[b])
                => ret[1][b][y][x] = 0
    /\ \A y1 \in Covered(b) : \A y2 \in Covered(b) :
          \A x1 \in Owners(b, y1) : \A x2 \in Owners(b, y2) :
              y1 <= y2 => x1 <= x2

\* C9 (as claimed): the path is 0/1, zero outside the mask, every valid
\* feature index below the total duration is assigned to exactly one encoder
\* index, and the assigned index never decreases.
C9_EveryCoveredFrameAssigned ==
    op = "_generate_path" =>
        \A b \in Examples :
            /\ PathShape(b)
            /\ \A y \in Covered(b) : Cardinality(Owners(b, y)) = 1

\* C9 (amended): the path is 0/1, zero outside the mask, every valid feature
\* index below the total duration is assigned to the encoder index whose
\* cumulative-duration interval holds it when that index is inside the mask
\* and to none otherwise, and the assigned index never decreases.
C9_CoveredFrameAssignedIfOwnerValid ==
    op = "_generate_path" =>
        \A b \in Examples :
            /\ PathShape(b)
            /\ \A y \in Covered(b) :
                  Owners(b, y) = IF OwnerOf(b, y) <= The(args).lx[b]
                                     THEN {OwnerOf(b, y)} ELSE {}

C9_Witness ==
    /\ op = "_generate_path"
    /\ The(args).t_x = 2
    /\ The(args).t_y = 3
    /\ The(args).dur[1] = <<1, 2>>
    /\ The(args).lx[1] = 1
    /\ The(args).ly[1] = 3
    /\ Owners(1, 1) = {1}
    /\ Owners(1, 2) = {}

\* C10: in free-running inference the sequence handed to the decoder always
\* has at least one frame.
C10_DecoderInputNonEmpty ==
    (op = "inference" /\ ~The(args).use_teacher_forcing /\ ~IsNone(dec)) =>
        The(dec).t >= 1

\* the encoder time length of an inference call
EncoderWidth == Width(The(args).label_xml)

FreeRunning ==
    op = "inference" /\ outcome = "ok" /\ ~The(args).use_teacher_forcing

TeacherForcing ==
    op = "inference" /\ outcome = "ok" /\ The(args).use_teacher_forcing

\* C11: in free-running inference the decoder is handed the mask-applied
\* inverse-flow output cut on the right to max_len: T_enc frames when max_len
\* is None, the first min(T_enc, L) frames when max_len = L >= 0.
C11_FreeRunningLatentTruncated ==
    FreeRunning =>
        LET d == The(dec)
            n == IF IsNone(The(args).max_len)
                    THEN EncoderWidth
                    ELSE Min(EncoderWidth, The(The(args).max_len))
        IN /\ d.t = n
           /\ d.v.f = "slice"
           /\ d.v.xs[2] = 0
           /\ d.v.xs[3] = n
           /\ d.v.xs[1].f = "mul"
           /\ d.v.xs[1].xs[1].f = "flow_inverse"
           /\ d.v.xs[1].xs[2] =
                  SequenceMask(The(args).label_xml_lengths, EncoderWidth)

C11_Witness ==
    /\ FreeRunning
    /\ EncoderWidth = 3
    /\ The(args).max_len = Some(2)
    /\ The(dec).t = 2
    /\ The(dec).v.f = "slice"

ConfiguredParts ==
    { n \in AllCond :
        \/ n = "sids" /\ \E spks \in The(gen).spks : spks > 1
        \/ n = "spembs" /\ \E dim \in The(gen).spk_embed_dim : dim > 0
        \/ n = "lids" /\ \E langs \in The(gen).langs : langs > 1 }

\* C13: in forward and in inference, g is the sum of exactly the
\* contributions of the configured features, None when none is configured;
\* the tensor of an unconfigured feature does not contribute even when the
\* caller supplies it.
C13_GlobalConditioning ==
    (op \in {"forward", "inference"} /\ outcome = "ok") =>
        The(dec).g = IF ConfiguredParts = {} THEN None
                                             ELSE Some(ConfiguredParts)

C13_Witness ==
    /\ op = "inference"
    /\ outcome = "ok"
    /\ The(args).cond = AllCond
    /\ ~IsNone(The(gen).spks)
    /\ IsNone(The(gen).spk_embed_dim)
    /\ ~IsNone(The(gen).langs)
    /\ The(dec).g = Some({"sids", "lids"})

\* C14: if every declared auxiliary length was at most the original width of
\* label_xml, every declared length handed to the text encoder is at most the
\* width of the reconciled stream.
C14_LengthsWithinReconciledWidth ==
    (op = "forward" /\ ~IsNone(enc)
       /\ \A i \in Examples :
            The(args).label_xml_lengths[i] <= Width(The(args).label_xml)) =>
        \A i \in Examples :
            The(enc).label_xml_lengths[i] <= Width(The(enc).label_xml)

\* C15: after a forward call the caller's label_xml_lengths, label_xml,
\* midi_xml and beat_xml hold the values they held before the call.
C15_CallerBuffersUnchanged ==
    (op = "forward" /\ ~IsNone(caller)) =>
        /\ The(caller).label_xml_lengths = The(args).label_xml_lengths
        /\ The(caller).label_xml = The(args).label_xml
        /\ The(caller).midi_xml = The(args).midi_xml
        /\ The(caller).beat_xml = The(args).beat_xml

\* the call with no durations supplied and the default duration-noise scale
\* and speed-control factor
WithoutDurationControls(a) ==
    [a EXCEPT !.dur = None, !.noise_scale_dur = 800, !.alpha = 1000]

WithoutScoreControls(a) ==
    [a EXCEPT !.label_xml = Stream(100, 1), !.midi_xml = Stream(200, 1),
              !.beat_xml = Stream(300, 1), !.label_xml_lengths = AllOf(1),
              !.noise_scale = 667, !.max_len = None]

====
